---- MODULE Spec2Model ----
(***************************************************************************)
(* Model of isCastable.py: deciding whether a list of lands can pay a mana *)
(* cost, by a SAT reduction (ManaToSAT / isCastable / deriveLands) and by  *)
(* a search over column sets (ManaToSetSolver).                            *)
(*                                                                         *)
(* Python indices are 0-based; sequences here are 1-based, so the land at  *)
(* Python index l is lands[l+1].  Python strings of digits are sequences   *)
(* of the digits 0..9.  Python values that mix types (a model, "UNSAT",    *)
(* an exception) are records or strings with a tag.                        *)
(***************************************************************************)
EXTENDS Integers, Sequences, FiniteSets, TLC

\* ------------------------------------------------------------------ bounds
MaxLands == 2
MaxCost == 3

\* "currently works for up to 10 mana": indices 0..9 are one decimal digit.
DigitBound == 10

\* The mana symbols of the inputs; "1" is the generic symbol.
CostSymbols == {"W", "B", "1"}
LandKinds == {{"W"}, {"B"}, {"W", "B"}}

\* ------------------------------------------------------------ pure helpers
RECURSIVE Concat(_)
Concat(ss) == IF ss = <<>> THEN <<>> ELSE Head(ss) \o Concat(Tail(ss))

RECURSIVE SetToSortedSeq(_)
SetToSortedSeq(S) ==
    IF S = {} THEN <<>>
    ELSE LET m == CHOOSE x \in S : \A y \in S : x <= y
         IN  <<m>> \o SetToSortedSeq(S \ {m})

Abs(n) == IF n < 0 THEN -n ELSE n

\* str(n) for a natural n: its decimal digits, most significant first.
RECURSIVE str(_)
str(n) == IF n < 10 THEN <<n>> ELSE str(n \div 10) \o <<n % 10>>

\* int(s) for a sequence of digits s.
RECURSIVE int(_)
int(s) == IF s = <<>> THEN 0 ELSE 10 * int(SubSeq(s, 1, Len(s) - 1)) + s[Len(s)]

\* Python's "sub in text" on strings: sub occurs as a contiguous substring.
StrIn(sub, text) ==
    \E k \in 0..(Len(text) - Len(sub)) : SubSeq(text, k + 1, k + Len(sub)) = sub

\* Determines whether a land taps for a given mana symbol (None is falsy).
tapsFor(land, mana) == (mana \in land) \/ (mana = "1")

\* 2d array lining up mana with the lands that can tap for it.
buildCastsArray(ls, cs) ==
    [l \in 1..Len(ls) |-> [c \in 1..Len(cs) |-> IF tapsFor(ls[l], cs[c]) THEN 1 ELSE 0]]

\* ------------------------------------------------------------- ManaToSAT
\* int("1{}{}".format(land, mana)) with 0-based land and mana.
Lit(land, mana) == int(<<1>> \o str(land) \o str(mana))

\* One clause per mana symbol, over every land.
constraintA(arr) ==
    [col \in 1..Len(arr[1]) |-> [land \in 1..Len(arr) |-> Lit(land - 1, col - 1)]]

\* One clause -1Lm \/ -1Li per land and per pair mana < i.
constraintB(arr) ==
    Concat([land \in 1..Len(arr) |->
        Concat([mana \in 1..Len(arr[1]) |->
            [k \in 1..(Len(arr[1]) - mana) |->
                << -Lit(land - 1, mana - 1), -Lit(land - 1, mana + k - 1) >>]])])

\* The clause of one land in buildCustomConstraints.
CustomClause(arr, land) ==
    LET manas == SelectSeq([m \in 1..Len(arr[1]) |-> m], LAMBDA m : arr[land][m] = 1)
    IN  [k \in 1..Len(manas) |-> Lit(land - 1, manas[k] - 1)]

\* buildCustomConstraints without its "if clause != []" test.
buildCustomConstraintsKeepEmpty(arr) == [land \in 1..Len(arr) |-> CustomClause(arr, land)]

\* One clause per land over the symbols it taps for; empty clauses are dropped.
buildCustomConstraints(arr) ==
    SelectSeq([land \in 1..Len(arr) |-> CustomClause(arr, land)], LAMBDA c : c # <<>>)

buildSATInstance(arr) == constraintA(arr) \o constraintB(arr) \o buildCustomConstraints(arr)

\* ---------------------------------------------------------- pycosat.solve
\* The solver is an external library: it answers with a model (a list of
\* signed variables, ascending by variable), with "UNSAT", or with "UNKNOWN";
\* the call can also raise.  Variables that occur in no clause are reported
\* false and are left out of the model here.
ClauseSet(clauses) == {clauses[k] : k \in 1..Len(clauses)}

VarsOf(clauses) ==
    UNION {{Abs(clauses[k][j]) : j \in 1..Len(clauses[k])} : k \in 1..Len(clauses)}

Satisfies(T, c) ==
    \E j \in 1..Len(c) : (c[j] > 0 /\ c[j] \in T) \/ (c[j] < 0 /\ (-c[j]) \notin T)

\* The sets T of true variables among vs[1..k] that satisfy every clause of cl
\* all of whose variables are among vs[1..k].
RECURSIVE Partial(_, _, _)
Partial(cl, vs, k) ==
    IF k = 0
    THEN IF <<>> \in cl THEN {} ELSE {{}}
    ELSE LET seen == {vs[j] : j \in 1..k}
             due  == {c \in cl : /\ \E j \in 1..Len(c) : Abs(c[j]) = vs[k]
                                 /\ \A j \in 1..Len(c) : Abs(c[j]) \in seen}
         IN  {T \in {P \cup X : P \in Partial(cl, vs, k - 1), X \in {{}, {vs[k]}}} :
                 \A c \in due : Satisfies(T, c)}

\* Every set of true variables that satisfies the clause list.
Models(clauses) ==
    LET vs == SetToSortedSeq(VarsOf(clauses))
    IN  Partial(ClauseSet(clauses), vs, Len(vs))

\* The model as pycosat lists it: v if v is true, -v otherwise.
AsList(clauses, T) ==
    LET vs == SetToSortedSeq(VarsOf(clauses))
    IN  [k \in 1..Len(vs) |-> IF vs[k] \in T THEN vs[k] ELSE -vs[k]]

\* ------------------------------------------------------------ deriveLands
DictPut(d, k, v) == [x \in (DOMAIN d) \cup {k} |-> IF x = k THEN v ELSE d[x]]

EmptyDict == [x \in {} |-> 0]

RECURSIVE DeriveLoop(_, _)
DeriveLoop(selectedClauses, d) ==
    IF selectedClauses = <<>> THEN d
    ELSE LET clause == Head(selectedClauses)
             land   == str(clause)[2]
             mana   == str(clause)[3]
         IN  DeriveLoop(Tail(selectedClauses), DictPut(d, land, mana))

\* Dictionary land index -> mana index decoded from the positive items of sol.
deriveLands(ls, cs, model) ==
    DeriveLoop(SelectSeq(model, LAMBDA item : item > 0), EmptyDict)

\* -------------------------------------------------------- ManaToSetSolver
\* Per column, the 0-based rows holding a 1, ascending.
getSets(arr) ==
    [col \in 1..Len(arr[1]) |->
        LET rows == SelectSeq([r \in 1..Len(arr) |-> r], LAMBDA r : arr[r][col] = 1)
        IN  [k \in 1..Len(rows) |-> rows[k] - 1]]

\* solutions = [str(x) for x in sets[0]]
InitialSolutions(ss) == [k \in 1..Len(ss[1]) |-> str(ss[1][k])]

\* The test of getResult with the pruning left out.
NotVisitedAlways(i, thing) == TRUE

\* if str(i) not in str(thing)
NotVisited(i, thing) == ~StrIn(str(i), thing)

\* One iteration of "for layer in sets[1:]": every thing of the copy that does
\* not hold i is appended again, extended by i.
ExtendLayer(sols, lay) ==
    sols \o Concat([k \in 1..Len(lay) |->
        LET kept == SelectSeq(sols, LAMBDA thing : NotVisited(lay[k], thing))
        IN  [j \in 1..Len(kept) |-> kept[j] \o str(lay[k])]])

\* Some thing of solutions has len(str(thing)) == costTotal.
HasFullLength(sols, costTotal) == \E k \in 1..Len(sols) : Len(sols[k]) = costTotal

\* ------------------------------------------------------------------ state
VARIABLES
    lands,         \* the query's lands: a sequence of sets of symbols
    cost,          \* the query's mana cost: a sequence of symbols
    pc,            \* where the driver is
    SAT,           \* mts.SAT, the clause list
    sol,           \* mts.sol, the solver's answer
    answer,        \* what kind of answer the solver gave to this query
    castable,      \* what isCastable gave its caller
    retDict,       \* what deriveLands gave its caller
    sets,          \* ManaToSetSolver.sets
    solutions,     \* the working list of getResult
    layer,         \* index into sets of the next layer of getResult
    setSol,        \* ManaToSetSolver.sol
    prevCastable   \* castable of the query before a land was added

vars == <<lands, cost, pc, SAT, sol, answer, castable, retDict, sets, solutions,
          layer, setSol, prevCastable>>

NoSol == [tag |-> "none", model |-> <<>>]

SeqsUpTo(S, n) == UNION {[1..k -> S] : k \in 0..n}

\* Queries within the bounds, and queries one past the one-digit bound.
SmallQuery == lands \in SeqsUpTo(LandKinds, MaxLands) /\ cost \in SeqsUpTo(CostSymbols, MaxCost)

WideQuery ==
    \E land \in LandKinds, c \in CostSymbols :
        \/ lands = [k \in 1..(DigitBound + 1) |-> land] /\ cost = <<c>>
        \/ lands = <<land>> /\ cost = [k \in 1..(DigitBound + 1) |-> c]

Fresh ==
    /\ pc = "start"
    /\ SAT = <<>>
    /\ sol = NoSol
    /\ answer = "none"
    /\ castable = "none"
    /\ retDict = EmptyDict
    /\ sets = <<>>
    /\ solutions = <<>>
    /\ layer = 0
    /\ setSol = "none"

Init == (SmallQuery \/ WideQuery) /\ Fresh /\ prevCastable = "none"

\* ------------------------------------------------------------- isCastable
\* ManaToSAT.__init__ up to the clause list; arr[0] of an empty array raises.
BuildSAT ==
    /\ pc = "start"
    /\ IF lands = <<>>
       THEN /\ castable' = "IndexError"
            /\ pc' = "returned"
            /\ SAT' = SAT
       ELSE /\ SAT' = buildSATInstance(buildCastsArray(lands, cost))
            /\ pc' = "solve"
            /\ castable' = castable
    /\ UNCHANGED <<lands, cost, sol, answer, retDict, sets, solutions, layer, setSol,
                   prevCastable>>

\* pycosat.solve answers with a model, or with "UNSAT" when there is none.
SolveAnswer ==
    /\ pc = "solve"
    /\ IF Models(SAT) = {}
       THEN sol' = [tag |-> "UNSAT", model |-> <<>>] /\ answer' = "UNSAT"
       ELSE \E T \in Models(SAT) :
                sol' = [tag |-> "model", model |-> AsList(SAT, T)] /\ answer' = "model"
    /\ pc' = "solved"
    /\ UNCHANGED <<lands, cost, SAT, castable, retDict, sets, solutions, layer, setSol,
                   prevCastable>>

\* pycosat.solve gives up and answers "UNKNOWN".
SolveUnknown ==
    /\ pc = "solve"
    /\ sol' = [tag |-> "UNKNOWN", model |-> <<>>]
    /\ answer' = "UNKNOWN"
    /\ pc' = "solved"
    /\ UNCHANGED <<lands, cost, SAT, castable, retDict, sets, solutions, layer, setSol,
                   prevCastable>>

\* pycosat.solve raises; the exception leaves ManaToSAT and isCastable.
SolveRaises ==
    /\ pc = "solve"
    /\ answer' = "raised"
    /\ castable' = "SolverError"
    /\ SAT' = <<>>
    /\ pc' = "returned"
    /\ UNCHANGED <<lands, cost, sol, retDict, sets, solutions, layer, setSol, prevCastable>>

\* if mts.sol != "UNSAT": return True, else False; mts goes out of scope.
isCastable(s) == IF s.tag # "UNSAT" THEN "True" ELSE "False"

isCastableReturn ==
    /\ pc = "solved"
    /\ castable' = isCastable(sol)
    /\ SAT' = <<>>
    /\ sol' = NoSol
    /\ pc' = "returned"
    /\ UNCHANGED <<lands, cost, answer, retDict, sets, solutions, layer, setSol,
                   prevCastable>>

\* A caller hands the model of mts.sol to deriveLands.
DeriveLands ==
    /\ pc = "solved"
    /\ sol.tag = "model"
    /\ retDict' = deriveLands(lands, cost, sol.model)
    /\ pc' = "derived"
    /\ UNCHANGED <<lands, cost, SAT, sol, answer, castable, sets, solutions, layer, setSol,
                   prevCastable>>

\* -------------------------------------------------------- ManaToSetSolver
\* __init__ up to self.sets; arr[0] of an empty array raises in getSets.
SetSolverInit ==
    /\ pc = "returned"
    /\ IF lands = <<>>
       THEN /\ setSol' = "IndexError"
            /\ pc' = "done"
            /\ sets' = sets
       ELSE /\ sets' = getSets(buildCastsArray(lands, cost))
            /\ pc' = "getResult"
            /\ setSol' = setSol
    /\ UNCHANGED <<lands, cost, SAT, sol, answer, castable, retDict, solutions, layer,
                   prevCastable>>

\* getResult's first line; sets[0] of an empty list raises.
GetResultStart ==
    /\ pc = "getResult"
    /\ IF sets = <<>>
       THEN /\ setSol' = "IndexError"
            /\ pc' = "done"
            /\ UNCHANGED <<solutions, layer>>
       ELSE /\ solutions' = InitialSolutions(sets)
            /\ layer' = 2
            /\ pc' = "layers"
            /\ setSol' = setSol
    /\ UNCHANGED <<lands, cost, SAT, sol, answer, castable, retDict, sets, prevCastable>>

\* One iteration of "for layer in sets[1:]".
GetResultLayer ==
    /\ pc = "layers"
    /\ layer <= Len(sets)
    /\ solutions' = ExtendLayer(solutions, sets[layer])
    /\ layer' = layer + 1
    /\ UNCHANGED <<lands, cost, pc, SAT, sol, answer, castable, retDict, sets, setSol,
                   prevCastable>>

\* The closing scan of getResult.
GetResultReturn ==
    /\ pc = "layers"
    /\ layer > Len(sets)
    /\ setSol' = IF HasFullLength(solutions, Len(cost)) THEN "True" ELSE "False"
    /\ pc' = "done"
    /\ UNCHANGED <<lands, cost, SAT, sol, answer, castable, retDict, sets, solutions, layer,
                   prevCastable>>

\* ------------------------------------------------------------ next query
\* The caller asks again with one more land and the same cost.
AddLand ==
    /\ pc = "done"
    /\ Len(lands) < MaxLands
    /\ answer \in {"model", "UNSAT"}
    /\ \E land \in LandKinds : lands' = Append(lands, land)
    /\ prevCastable' = castable
    /\ pc' = "start"
    /\ SAT' = <<>>
    /\ sol' = NoSol
    /\ answer' = "none"
    /\ castable' = "none"
    /\ retDict' = EmptyDict
    /\ sets' = <<>>
    /\ solutions' = <<>>
    /\ layer' = 0
    /\ setSol' = "none"
    /\ cost' = cost

Next ==
    \/ BuildSAT
    \/ SolveAnswer
    \/ SolveUnknown
    \/ SolveRaises
    \/ isCastableReturn
    \/ DeriveLands
    \/ SetSolverInit
    \/ GetResultStart
    \/ GetResultLayer
    \/ GetResultReturn
    \/ AddLand

Spec == Init /\ [][Next]_vars

\* ----------------------------------------------------------------- claims
\* Both sizes are within the one-digit bound.
InBound == Len(lands) <= DigitBound /\ Len(cost) <= DigitBound

NonEmptyQuery == Len(lands) >= 1 /\ Len(cost) >= 1

\* The solver answered with a model or with "UNSAT".
Answered == answer \in {"model", "UNSAT"}

Bool(b) == IF b THEN "True" ELSE "False"

Injective(f) == \A a, b \in DOMAIN f : a # b => f[a] # f[b]

\* An injective map from cost positions to lands, each land compatible with
\* its position.
HasMatching ==
    \E f \in [1..Len(cost) -> 1..Len(lands)] :
        Injective(f) /\ \A p \in 1..Len(cost) : tapsFor(lands[f[p]], cost[p])

Elems(q) == {q[k] : k \in 1..Len(q)}

\* C1: for 1..10 lands and 1..10 cost symbols, isCastable returns True if and
\* only if an injective map from cost positions to compatible lands exists.
C1_CastableIffMatching ==
    (castable # "none" /\ Answered /\ NonEmptyQuery /\ InBound)
        => castable = Bool(HasMatching)

\* C2: for a query of 1..10 lands and 1..10 cost positions, isCastable and
\* ManaToSetSolver(...).sol are the same boolean (the empty queries are the
\* subject of C3).
C2_SolversAgree ==
    (pc = "done" /\ Answered /\ NonEmptyQuery /\ InBound)
        => (castable \in {"True", "False"} /\ castable = setSol)

\* C3: for every list of lands, the empty one included, an empty cost makes
\* isCastable return True and ManaToSetSolver(...).sol be True, and neither
\* raises.
C3_EmptyCostFeasible ==
    (pc = "done" /\ cost = <<>> /\ answer # "raised")
        => (castable = "True" /\ setSol = "True")

\* C4: if isCastable(lands, cost) is True for 1..9 lands and 1..10 cost
\* positions, then isCastable(lands + [L], cost) is True for every land L.
C4_Monotonic ==
    (prevCastable = "True" /\ castable # "none" /\ Answered /\ Len(cost) >= 1 /\ InBound)
        => castable = "True"

\* A land that taps for no position of the cost was added to a castable
\* query, and isCastable answered again from a model.
C4_Witness ==
    /\ prevCastable = "True"
    /\ castable = "True"
    /\ answer = "model"
    /\ Len(cost) >= 1
    /\ \A p \in 1..Len(cost) : ~tapsFor(lands[Len(lands)], cost[p])

\* C5: within the one-digit bound, the dictionary deriveLands decodes from a
\* model of the clause list gives no land to two distinct positions, and
\* every land it pairs with a position taps for that position's symbol.
C5_DerivedAssignmentValid ==
    (pc = "derived" /\ InBound) =>
        LET pairs == {<<l, retDict[l]>> : l \in DOMAIN retDict}
        IN  /\ \A a, b \in pairs : a[2] # b[2] => a[1] # b[1]
            /\ \A a \in pairs :
                  /\ a[1] < Len(lands)
                  /\ a[2] < Len(cost)
                  /\ tapsFor(lands[a[1] + 1], cost[a[2] + 1])

\* C6: with more than 10 lands or more than 10 cost positions, the SAT path
\* builds no clause and gives neither a feasibility result nor a decoded
\* assignment.
C6_OversizeRejected ==
    (Len(lands) > DigitBound \/ Len(cost) > DigitBound)
        => (SAT = <<>> /\ castable \notin {"True", "False"} /\ retDict = EmptyDict)

\* C7: when the solver call raises or answers something other than a model
\* or "UNSAT", isCastable gives its caller neither True nor False.
C7_SolverFailureDistinct ==
    answer \in {"UNKNOWN", "raised"} => castable \notin {"True", "False"}

\* C8: for each position p, the coverage clause of p in the clause list holds
\* exactly the variables 1sp of the lands s with matrix[s][p] = 1.
C8_CoverageClauseCompatibleOnly ==
    pc = "solve" =>
        LET arr == buildCastsArray(lands, cost)
        IN  \A p \in 1..Len(cost) :
                Elems(SAT[p]) = {Lit(s - 1, p - 1) : s \in {r \in 1..Len(lands) : arr[r][p] = 1}}

\* C9: for 1..10 lands and 1..10 cost symbols, ManaToSetSolver(...).sol is
\* True if and only if one distinct compatible land per cost position exists;
\* with an empty column set it is False.
C9_SetSolverIffSDR ==
    (pc = "done" /\ NonEmptyQuery /\ InBound) => setSol = Bool(HasMatching)

\* The set solver found a full assignment for at least two positions that
\* share a candidate land, so the pruning test decided.
C9_Witness ==
    /\ pc = "done"
    /\ setSol = "True"
    /\ InBound
    /\ Len(cost) >= 2
    /\ Elems(sets[1]) \cap Elems(sets[2]) # {}

\* C10: at every step of getResult, with at most 10 lands, every entry of
\* solutions of length k holds k pairwise distinct land indices, the j-th of
\* them a member of the column set of position j.
C10_CommittedPrefixes ==
    (pc = "layers" /\ Len(lands) <= DigitBound) =>
        \A k \in 1..Len(solutions) :
            LET thing == solutions[k]
            IN  /\ \A a, b \in 1..Len(thing) : a # b => thing[a] # thing[b]
                /\ \A j \in 1..Len(thing) : j <= Len(sets) /\ thing[j] \in Elems(sets[j])

====
